---- MODULE Spec2Model ----
(***************************************************************************)
(* A model of fix_rotate_pdf.py: the per-page orientation resolver of      *)
(* process_file (landscape stage, upright/inverted stage, majority-vote    *)
(* fallback, double-check, composition, low-confidence report), the pure   *)
(* helper snap_rotation_to_allowed, determine_output_path and save_pdf     *)
(* over the output directory, and the report tail.                         *)
(*                                                                         *)
(* Confidences are floats in the source; here they are integers in tenths  *)
(* (5.0 is 50, 0.5 is 5, 10.0 is 100), which keeps every comparison of the *)
(* source exact on the values used.                                        *)
(***************************************************************************)
EXTENDS Integers, Sequences, FiniteSets

VARIABLES
    CONF_THRESHOLD,          \* the module global set in __main__ (tenths)
    pc,                      \* position: "main" (between process_file calls), "loop", "stepA",
                             \* "stepB", "dcheck", "compose", "save", "report", "failed" (an
                             \* exception left process_file); "determine", "determined",
                             \* "exhausted" for determine_output_path step by step; "snap",
                             \* "snapped" for snap_rotation_to_allowed on its own
    npages,                  \* len(zip(images, pdf.pages)) of the open document
    i,                       \* the loop's page number (enumerate start=1)
    low,                     \* process_file's low list
    changed,                 \* process_file's changed counter
    high_conf_updown_rots,   \* process_file's fallback history
    rotated_pages,           \* page numbers whose /Rotate was assigned (line 260)
    pg,                      \* the locals of the page being resolved
    save_attempts,           \* save_pdf: the results of the _try_save calls, in order
    closes,                  \* number of pdf.close() calls on the open document
    reports,                 \* number of times the report block (268-273) ran for the open document
    snap_in,                 \* snap_rotation_to_allowed: the rotation probed
    snap_list,               \* snap_rotation_to_allowed: the allowed list probed
    snap_out,                \* snap_rotation_to_allowed: the result
    fs,                      \* the output directory: a function from the names that exist to
                             \* what they hold
    out,                     \* process_file's out (lines 171, 266)
    idx,                     \* determine_output_path: the candidate being probed (0 is base)
    save_paths               \* save_pdf: the paths of the _try_save calls, in order

vars == << CONF_THRESHOLD, pc, npages, i, low, changed, high_conf_updown_rots,
           rotated_pages, pg, save_attempts, closes, reports, snap_in, snap_list, snap_out,
           fs, out, idx, save_paths >>

(***************************************************************************)
(* Bounds of the model and constants of the program.                       *)
(***************************************************************************)
\* pages of a document
MaxPages == 2
\* entries of the history a single page is resolved against (PageSpec)
MaxHistory == 3
\* elements of an allowed list (SnapSpec)
MaxSnapLen == 2

\* tenths: 5.0 (line 12), 10.0 (line 186), 10.0 (lines 69-70), 0.5 (line 207)

DEFAULT_CONF_THRESHOLD == 50
PORTRAIT_CONF == 100
POSE_CONF == 100
POSE_GATE_CONF == 5

\* Values prompt_numeric_value may return for CONF_THRESHOLD: the default and
\* one above every confidence the pose estimator reports.
Thresholds == {DEFAULT_CONF_THRESHOLD, 110}

\* (rot, conf) pairs detect_rotation_osd may return: the failure pair, and
\* Tesseract's rotate values, and one value off the grid and beyond a full
\* turn, each with a weak (0.3) and a strong (10.0, what the pose estimator
\* reports too) confidence.
OsdRots == {0, 90, 180, 270, 451}
OsdConfs == {3, 100}
OsdFail == [rot |-> 0, conf |-> 0]
OsdResults == {OsdFail} \cup [rot : OsdRots, conf : OsdConfs]

\* (rot, conf) pairs detect_pose_up_down returns.
PoseResults == { [rot |-> 0, conf |-> 0], [rot |-> 180, conf |-> POSE_CONF], [rot |-> 0, conf |-> POSE_CONF] }

\* Page image sizes (width, height): tall, square, wide.
ImageSizes == { <<1, 2>>, <<2, 2>>, <<2, 1>> }

\* Values of a page's /Rotate entry before the run.
StoredRotations == {0, 90, 180, 270}

(***************************************************************************)
(* snap_rotation_to_allowed (lines 94-103).                                *)
(***************************************************************************)
Min2(a, b) == IF a <= b THEN a ELSE b

\* _distance (lines 100-101)
Distance(a, b) == Min2((a - b) % 360, (b - a) % 360)

\* Python's min(list, key=...): a left-to-right scan that keeps the first
\* element whose key is strictly smaller than the best so far.
RECURSIVE MinScan(_, _, _, _)
MinScan(rotation, allowed, k, best) ==
    IF k > Len(allowed) THEN best
    ELSE IF Distance(rotation % 360, allowed[k] % 360) < Distance(rotation % 360, best % 360)
         THEN MinScan(rotation, allowed, k + 1, allowed[k])
         ELSE MinScan(rotation, allowed, k + 1, best)

\* Variant: a scan that replaces the best on equal distance, so that the
\* last of several nearest elements is returned.
RECURSIVE MinScanLast(_, _, _, _)
MinScanLast(rotation, allowed, k, best) ==
    IF k > Len(allowed) THEN best
    ELSE IF Distance(rotation % 360, allowed[k] % 360) <= Distance(rotation % 360, best % 360)
         THEN MinScanLast(rotation, allowed, k + 1, allowed[k])
         ELSE MinScanLast(rotation, allowed, k + 1, best)

snap_rotation_last_nearest(rotation, allowed_rotations) ==
    MinScanLast(rotation, allowed_rotations, 2, allowed_rotations[1])

snap_rotation_to_allowed(rotation, allowed_rotations) ==
    MinScan(rotation, allowed_rotations, 2, allowed_rotations[1])

(***************************************************************************)
(* Counter(history).most_common(1)[0][0] (line 218): the Counter keeps its *)
(* keys in first-insertion order; most_common(1) is max() by count, which  *)
(* returns the first key with the greatest count.                          *)
(***************************************************************************)
RECURSIVE CounterKeys(_, _, _)
CounterKeys(s, k, keys) ==
    IF k > Len(s) THEN keys
    ELSE IF \E j \in 1..Len(keys) : keys[j] = s[k]
         THEN CounterKeys(s, k + 1, keys)
         ELSE CounterKeys(s, k + 1, Append(keys, s[k]))

CounterCount(s, v) == Cardinality({k \in 1..Len(s) : s[k] = v})

RECURSIVE MaxScan(_, _, _, _)
MaxScan(s, keys, k, best) ==
    IF k > Len(keys) THEN best
    ELSE IF CounterCount(s, keys[k]) > CounterCount(s, best)
         THEN MaxScan(s, keys, k + 1, keys[k])
         ELSE MaxScan(s, keys, k + 1, best)

most_common(s) ==
    LET keys == CounterKeys(s, 1, << >>)
    IN  MaxScan(s, keys, 2, keys[1])

(***************************************************************************)
(* The output directory, determine_output_path (lines 106-122) and         *)
(* save_pdf (lines 125-152). A path is <<"rot", k>> for the candidate      *)
(* <stem>_rot<suffix> (k = 0) or <stem>_rot_k<suffix> (k >= 1), and        *)
(* <<"new", k>> for the alternate name <candidate stem>_new<suffix>. A     *)
(* file holds "old" (it was there before the run), "other" (another        *)
(* program wrote it during the run) or "new" (pdf.save wrote it).          *)
(***************************************************************************)
\* Variant: the indexed candidates start at _rot_2.
RangeStartSkipsOne == 1 + 1

\* line 117: range(1, 1_000)
RANGE_START == 1
RANGE_STOP == 1000

\* lines 113, 118
Candidate(k) == << "rot", k >>

\* line 145
AltName(path) == << "new", path[2] >>

NoPath == << >>

\* A directory in which no output name exists.
NoFiles == [ n \in {} |-> "old" ]

\* Path.exists (lines 114, 119, 131)
PathExists(f, path) == path \in DOMAIN f

\* Path.unlink (line 133), when it succeeds
Unlink(f, path) == [ n \in DOMAIN f \ {path} |-> f[n] ]

\* a file written at path
WriteFile(f, path, content) ==
    [ n \in DOMAIN f \cup {path} |-> IF n = path THEN content ELSE f[n] ]

\* each _try_save ends "ok", in a PermissionError ("perm") or in another
\* error ("error")
SaveOutcomes == {"ok", "perm", "error"}

\* lines 130-139: the ways a _try_save(path) call can end, each with the
\* directory it leaves: unlink of an existing file raises PermissionError
\* or another error, or removes the file; then pdf.save writes the file or
\* raises
TrySave(f, path) ==
    LET unlinked == Unlink(f, path)
        saves == { [ result |-> r,
                     fs |-> IF r = "ok" THEN WriteFile(unlinked, path, "new") ELSE unlinked ] :
                   r \in SaveOutcomes }
    IN  IF PathExists(f, path)
        THEN { [ result |-> "perm", fs |-> f ], [ result |-> "error", fs |-> f ] } \cup saves
        ELSE saves

\* Variant: every failed first attempt is retried.
RetriesOnAnyError(result) == result # "ok"

\* line 143: except PermissionError
Retries(result) == result = "perm"

(***************************************************************************)
(* process_file: the decisions of one page, as operators.                  *)
(***************************************************************************)
\* Variant: a square page classified landscape.
IsPortraitStrict(w, h) == h > w

\* line 184
IsPortrait(w, h) == h >= w

\* lines 185-191: (primary_rot, primary_conf) of a page; osd is the result of
\* the landscape-stage detect_rotation_osd call, read only for a landscape page
LandscapeRot(is_portrait, osd) ==
    IF is_portrait THEN 0 ELSE snap_rotation_to_allowed(osd.rot, <<90, 270>>)

LandscapeConf(is_portrait, osd) ==
    IF is_portrait THEN PORTRAIT_CONF ELSE osd.conf

\* lines 206-208
RunPose(text, conf) == ~(text /\ conf >= POSE_GATE_CONF)

\* Variant: the pose result is adopted on equal confidences too.
PoseWinsOnTie(p_conf, conf) == p_conf >= conf

\* line 212
PoseWins(p_conf, conf) == p_conf > conf

\* Variant: the fallback is taken whenever the history is non-empty.
UseFallbackAnyConf(conf, history) == history # << >>

\* line 217
UseFallback(conf, history) == conf < CONF_THRESHOLD /\ history # << >>

\* Variant: the fallback takes the most recent entry of the history.
FallbackUpdownLatest(rot, conf, history) ==
    IF UseFallback(conf, history)
    THEN history[Len(history)]
    ELSE snap_rotation_to_allowed(rot, <<0, 180>>)

\* lines 216-221
FallbackUpdown(rot, conf, history) ==
    IF UseFallback(conf, history)
    THEN most_common(history)
    ELSE snap_rotation_to_allowed(rot, <<0, 180>>)

\* Variant: every page is appended to the history.
HistoryAppendAlways(conf, applied_updown, history) == Append(history, applied_updown)

\* lines 223-224
HistoryAppend(conf, applied_updown, history) ==
    IF conf >= CONF_THRESHOLD THEN Append(history, applied_updown) ELSE history

\* line 228
DoubleCheckRuns(is_portrait, applied_updown) == is_portrait /\ applied_updown # 0

\* lines 233, 240, 245: the upright score of an OSD reading
UprightScore(rot, conf) == IF rot = 0 THEN conf ELSE 0

\* Variant: the flip is reverted on equal scores too.
RevertsOnTie(score_original, score_rotated) == score_original >= score_rotated

\* line 248
Reverts(score_original, score_rotated) == score_original > score_rotated

\* Variant: the sum is not reduced modulo 360.
TotalRotationUnreduced(primary_rot, applied_updown) == primary_rot + applied_updown

\* lines 251, 256
TotalRotation(primary_rot, applied_updown) == (primary_rot + applied_updown) % 360

\* Variant: the sum is not reduced modulo 360.
NewRotationUnreduced(current_rotation, total_rotation) == current_rotation + total_rotation

\* line 257
NewRotation(current_rotation, total_rotation) == (current_rotation + total_rotation) % 360

\* line 259
RotationChanges(new_rotation, current_rotation) == new_rotation # current_rotation

\* Variant: only the upright/inverted confidence decides.
IsLowConfidenceUpdownOnly(conf, primary_conf) == conf < CONF_THRESHOLD

\* line 263
IsLowConfidence(conf, primary_conf) ==
    conf < CONF_THRESHOLD \/ primary_conf < CONF_THRESHOLD

\* Variant: the history of the previous call is kept.
KeptHistory == high_conf_updown_rots

\* line 178
FreshHistory == << >>

\* The locals of a page before line 181 runs for it.
NoPage ==
    [ w |-> 0, h |-> 0, is_portrait |-> TRUE,
      landscape_calls |-> 0,      \* detect_rotation_osd calls of Step 1
      rot_landscape |-> 0, conf_landscape |-> 0,
      primary_rot |-> 0, primary_conf |-> 0,
      probe |-> << >>,            \* the answers of the has_text_content calls, in order
      osd_A |-> FALSE,            \* whether Step A called detect_rotation_osd
      rot_A |-> 0, conf_A |-> 0,  \* (rot, conf) after line 200
      pose_calls |-> 0,           \* detect_pose_up_down calls
      p_rot |-> 0, p_conf |-> 0,  \* (p_rot, p_conf) of line 211
      rot |-> 0, conf |-> 0,      \* (rot, conf) after line 214
      used_fallback |-> FALSE,
      fallback_updown |-> 0,      \* applied_updown after line 221
      dc_ran |-> FALSE,           \* whether the block of lines 229-254 ran
      rotated_calls |-> 0,        \* detect_rotation_osd calls on rotated_img (line 244)
      score_original |-> 0, score_rotated |-> 0, reverted |-> FALSE,
      applied_updown |-> 0,       \* applied_updown after line 254
      current_rotation |-> 0, total_rotation |-> 0, new_rotation |-> 0 ]

(***************************************************************************)
(* The run.                                                                *)
(***************************************************************************)
Init ==
    /\ CONF_THRESHOLD \in Thresholds
    /\ pc = "main"
    /\ npages = 0
    /\ i = 0
    /\ low = << >>
    /\ changed = 0
    /\ high_conf_updown_rots = << >>
    /\ rotated_pages = {}
    /\ pg = NoPage
    /\ save_attempts = << >>
    /\ closes = 0
    /\ reports = 0
    /\ snap_in = 0
    /\ snap_list = <<0>>
    /\ snap_out = 0
    /\ fs = NoFiles
    /\ out = NoPath
    /\ idx = 0
    /\ save_paths = << >>

snapvars == << snap_in, snap_list, snap_out >>

filevars == << fs, out, idx, save_paths >>

\* lines 298-299 and 170-178: the next input file is opened and the locals
\* of process_file are created; until then the variables hold what the
\* previous call left. The input is one for which no output name exists
\* yet, so that determine_output_path returns the base name at line 115.
ProcessFileStart ==
    /\ pc = "main"
    /\ \E n \in 0..MaxPages : npages' = n
    /\ i' = 0
    /\ low' = << >>
    /\ changed' = 0
    /\ high_conf_updown_rots' = FreshHistory
    /\ rotated_pages' = {}
    /\ pg' = NoPage
    /\ save_attempts' = << >>
    /\ closes' = 0
    /\ reports' = 0
    /\ fs' = NoFiles
    /\ out' = Candidate(0)
    /\ idx' = 0
    /\ save_paths' = << >>
    /\ pc' = "loop"
    /\ UNCHANGED << CONF_THRESHOLD, snapvars >>

\* lines 180-193: the next page; Step 1
LandscapeStage ==
    /\ pc = "loop"
    /\ i < npages
    /\ i' = i + 1
    /\ \E size \in ImageSizes :
         LET is_portrait == IsPortrait(size[1], size[2])
         IN  \E osd \in (IF is_portrait THEN {OsdFail} ELSE OsdResults) :
               pg' = [ NoPage EXCEPT
                         !.w = size[1], !.h = size[2],
                         !.is_portrait = is_portrait,
                         !.landscape_calls = IF is_portrait THEN 0 ELSE 1,
                         !.rot_landscape = osd.rot,
                         !.conf_landscape = osd.conf,
                         !.primary_rot = LandscapeRot(is_portrait, osd),
                         !.primary_conf = LandscapeConf(is_portrait, osd) ]
    /\ pc' = "stepA"
    /\ UNCHANGED << CONF_THRESHOLD, npages, low, changed, high_conf_updown_rots,
                    rotated_pages, save_attempts, closes, reports, snapvars, filevars >>

\* lines 196-200: Step 2, Step A
UprightStepA ==
    /\ pc = "stepA"
    /\ \E text \in BOOLEAN :
         \E osd \in (IF text THEN OsdResults ELSE {OsdFail}) :
           pg' = [ pg EXCEPT
                     !.probe = Append(@, text),
                     !.osd_A = text,
                     !.rot_A = osd.rot, !.conf_A = osd.conf,
                     !.rot = osd.rot, !.conf = osd.conf ]
    /\ pc' = "stepB"
    /\ UNCHANGED << CONF_THRESHOLD, npages, i, low, changed, high_conf_updown_rots,
                    rotated_pages, save_attempts, closes, reports, snapvars, filevars >>

\* lines 216-224 applied to the page locals p
AfterFallback(p) ==
    [ p EXCEPT
        !.used_fallback = UseFallback(p.conf, high_conf_updown_rots),
        !.fallback_updown = FallbackUpdown(p.rot, p.conf, high_conf_updown_rots),
        !.applied_updown = FallbackUpdown(p.rot, p.conf, high_conf_updown_rots) ]

\* lines 202-224: Step B (pose), the majority-vote fallback and the history append
UprightStepB ==
    /\ pc = "stepB"
    /\ IF pg.conf < CONF_THRESHOLD
       THEN \E text \in BOOLEAN :
              \E pose \in (IF RunPose(text, pg.conf) THEN PoseResults ELSE {[rot |-> 0, conf |-> 0]}) :
                LET adopt == RunPose(text, pg.conf) /\ PoseWins(pose.conf, pg.conf)
                    p == [ pg EXCEPT
                             !.probe = Append(@, text),
                             !.pose_calls = IF RunPose(text, pg.conf) THEN 1 ELSE 0,
                             !.p_rot = pose.rot, !.p_conf = pose.conf,
                             !.rot = IF adopt THEN pose.rot ELSE @,
                             !.conf = IF adopt THEN pose.conf ELSE @ ]
                IN  /\ pg' = AfterFallback(p)
                    /\ high_conf_updown_rots' =
                         HistoryAppend(p.conf, AfterFallback(p).applied_updown, high_conf_updown_rots)
       ELSE /\ pg' = AfterFallback(pg)
            /\ high_conf_updown_rots' =
                 HistoryAppend(pg.conf, AfterFallback(pg).applied_updown, high_conf_updown_rots)
    /\ pc' = "dcheck"
    /\ UNCHANGED << CONF_THRESHOLD, npages, i, low, changed,
                    rotated_pages, save_attempts, closes, reports, snapvars, filevars >>

\* lines 240, 245: the upright scores a detect_rotation_osd call can yield
OsdScores == { UprightScore(r.rot, r.conf) : r \in OsdResults }

\* lines 226-254: the double-check
DoubleCheck ==
    /\ pc = "dcheck"
    /\ IF DoubleCheckRuns(pg.is_portrait, pg.applied_updown)
       THEN \E text \in BOOLEAN :
              \E score_check \in (IF text THEN {0} ELSE OsdScores), score_rotated \in OsdScores :
                LET score_original ==
                        IF text THEN UprightScore(pg.rot, pg.conf) ELSE score_check
                IN  pg' = [ pg EXCEPT
                              !.probe = Append(@, text),
                              !.dc_ran = TRUE,
                              !.rotated_calls = 1,
                              !.score_original = score_original,
                              !.score_rotated = score_rotated,
                              !.reverted = Reverts(score_original, score_rotated),
                              !.applied_updown =
                                  IF Reverts(score_original, score_rotated) THEN 0 ELSE @ ]
       ELSE pg' = pg
    /\ pc' = "compose"
    /\ UNCHANGED << CONF_THRESHOLD, npages, i, low, changed, high_conf_updown_rots,
                    rotated_pages, save_attempts, closes, reports, snapvars, filevars >>

\* lines 181 and 256-264: composition with the stored rotation, the write,
\* the changed counter and the low-confidence entry. The stored /Rotate is
\* read at line 181 and first used here. Of the page's locals only those
\* lines 256-264 read or assign are kept; the others are not read again.
Compose ==
    /\ pc = "compose"
    /\ \E current_rotation \in StoredRotations :
         LET total_rotation == TotalRotation(pg.primary_rot, pg.applied_updown)
             new_rotation == NewRotation(current_rotation, total_rotation)
             wrote == RotationChanges(new_rotation, current_rotation)
             is_low == IsLowConfidence(pg.conf, pg.primary_conf)
         IN  /\ pg' = [ NoPage EXCEPT
                          !.primary_rot = pg.primary_rot,
                          !.primary_conf = pg.primary_conf,
                          !.conf = pg.conf,
                          !.used_fallback = pg.used_fallback,
                          !.applied_updown = pg.applied_updown,
                          !.current_rotation = current_rotation,
                          !.total_rotation = total_rotation,
                          !.new_rotation = new_rotation ]
             /\ rotated_pages' = IF wrote THEN rotated_pages \cup {i} ELSE rotated_pages
             /\ changed' = IF wrote THEN changed + 1 ELSE changed
             /\ low' = IF is_low
                       THEN Append(low, << i, pg.primary_rot, pg.applied_updown, pg.conf,
                                           pg.used_fallback, total_rotation >>)
                       ELSE low
    /\ pc' = "loop"
    /\ UNCHANGED << CONF_THRESHOLD, npages, i, high_conf_updown_rots,
                    save_attempts, closes, reports, snapvars, filevars >>

\* the loop of line 180 is exhausted; the locals of the last page are not
\* read again
LoopEnd ==
    /\ pc = "loop"
    /\ i = npages
    /\ pg' = NoPage
    /\ pc' = "save"
    /\ UNCHANGED << CONF_THRESHOLD, npages, i, low, changed, high_conf_updown_rots,
                    rotated_pages, save_attempts, closes, reports, snapvars, filevars >>

\* lines 266 and 125-152: save_pdf. The mkdir of line 128 finds the
\* directory of the input file and does nothing. The first _try_save goes to
\* out; after a PermissionError a second goes to the alternate name, and
\* its path is returned into out (line 266); pdf.close() runs in the finally
\* block on every way out.
SavePdf ==
    /\ pc = "save"
    /\ \E first \in TrySave(fs, out) :
         IF Retries(first.result)
         THEN \E second \in TrySave(first.fs, AltName(out)) :
                /\ save_attempts' = << first.result, second.result >>
                /\ save_paths' = << out, AltName(out) >>
                /\ fs' = second.fs
                /\ out' = IF second.result = "ok" THEN AltName(out) ELSE out
                /\ pc' = IF second.result = "ok" THEN "report" ELSE "failed"
         ELSE /\ save_attempts' = << first.result >>
              /\ save_paths' = << out >>
              /\ fs' = first.fs
              /\ out' = out
              /\ pc' = IF first.result = "ok" THEN "report" ELSE "failed"
    /\ closes' = closes + 1
    /\ UNCHANGED << CONF_THRESHOLD, npages, i, low, changed, high_conf_updown_rots,
                    rotated_pages, pg, reports, snapvars, idx >>

\* lines 268-273: the summary line and the low-confidence report
Report ==
    /\ pc = "report"
    /\ reports' = reports + 1
    /\ pc' = "main"
    /\ UNCHANGED << CONF_THRESHOLD, npages, i, low, changed, high_conf_updown_rots,
                    rotated_pages, pg, save_attempts, closes, snapvars, filevars >>

Next ==
    \/ ProcessFileStart
    \/ LandscapeStage
    \/ UprightStepA
    \/ UprightStepB
    \/ DoubleCheck
    \/ Compose
    \/ LoopEnd
    \/ SavePdf
    \/ Report

Spec == Init /\ [][Next]_vars

(***************************************************************************)
(* One page resolved after any history. A history over {0,180} is left by  *)
(* a prefix of portrait pages on which Step A read text with a hint of 0   *)
(* or 180 at confidence 10.0 and the double-check kept every 180: PageInit  *)
(* is the state of process_file after such a prefix, with one page to go.  *)
(* With the threshold above every confidence no page is ever appended.     *)
(***************************************************************************)
Histories == UNION { [1..n -> {0, 180}] : n \in 0..MaxHistory }

PageInit ==
    /\ CONF_THRESHOLD \in Thresholds
    /\ high_conf_updown_rots \in Histories
    /\ (high_conf_updown_rots # << >> => CONF_THRESHOLD <= 100)
    /\ pc = "loop"
    /\ i = Len(high_conf_updown_rots)
    /\ npages = i + 1
    /\ low = << >>
    /\ rotated_pages = {k \in 1..i : high_conf_updown_rots[k] = 180}
    /\ changed = Cardinality(rotated_pages)
    /\ pg = IF i = 0 THEN NoPage
            ELSE [ NoPage EXCEPT
                     !.primary_conf = PORTRAIT_CONF, !.conf = 100,
                     !.applied_updown = high_conf_updown_rots[i],
                     !.total_rotation = high_conf_updown_rots[i],
                     !.new_rotation = high_conf_updown_rots[i] ]
    /\ save_attempts = << >>
    /\ closes = 0
    /\ reports = 0
    /\ snap_in = 0
    /\ snap_list = <<0>>
    /\ snap_out = 0
    /\ fs = NoFiles
    /\ out = Candidate(0)
    /\ idx = 0
    /\ save_paths = << >>

PageNext ==
    \/ LandscapeStage
    \/ UprightStepA
    \/ UprightStepB
    \/ DoubleCheck
    \/ Compose
    \/ LoopEnd
    \/ SavePdf
    \/ Report

PageSpec == PageInit /\ [][PageNext]_vars

(***************************************************************************)
(* snap_rotation_to_allowed on its own: every rotation of SnapAngles       *)
(* against every non-empty list over SnapElements of at most MaxSnapLen    *)
(* elements.                                                               *)
(***************************************************************************)
SnapAngles == (0 - 370)..730
SnapElements == {0, 90, 180, 270, 0 - 90, 45}
SnapLists == UNION { [1..n -> SnapElements] : n \in 1..MaxSnapLen }
NoResult == 0 - 1

SnapInit ==
    /\ CONF_THRESHOLD = DEFAULT_CONF_THRESHOLD
    /\ pc = "snap"
    /\ npages = 0
    /\ i = 0
    /\ low = << >>
    /\ changed = 0
    /\ high_conf_updown_rots = << >>
    /\ rotated_pages = {}
    /\ pg = NoPage
    /\ save_attempts = << >>
    /\ closes = 0
    /\ reports = 0
    /\ snap_in \in SnapAngles
    /\ snap_list \in SnapLists
    /\ snap_out = NoResult
    /\ fs = NoFiles
    /\ out = NoPath
    /\ idx = 0
    /\ save_paths = << >>

SnapCall ==
    /\ pc = "snap"
    /\ snap_out' = snap_rotation_to_allowed(snap_in, snap_list)
    /\ pc' = "snapped"
    /\ UNCHANGED << CONF_THRESHOLD, npages, i, low, changed, high_conf_updown_rots,
                    rotated_pages, pg, save_attempts, closes, reports, snap_in, snap_list,
                    filevars >>

SnapNext == SnapCall

SnapSpec == SnapInit /\ [][SnapNext]_vars

(***************************************************************************)
(* process_file on one input file with no pages, in a directory that holds *)
(* earlier outputs: determine_output_path one exists() call at a time,     *)
(* then save_pdf. In the directory at the start the candidates within      *)
(* MaxNear of either end of the search exist or not independently, the     *)
(* candidates between them exist all or not at all, and the alternate      *)
(* names exist all or not at all.                                          *)
(***************************************************************************)
\* candidates at each end of the search whose existence is drawn one by one
MaxNear == 2

NearCandidates == (0..(MaxNear - 1)) \cup ((RANGE_STOP - MaxNear)..(RANGE_STOP - 1))

FarCandidates == (0..(RANGE_STOP - 1)) \ NearCandidates

StartFileSystems ==
    { [ n \in { Candidate(k) : k \in near \cup (IF far THEN FarCandidates ELSE {}) }
              \cup (IF alts THEN { AltName(Candidate(k)) : k \in 0..(RANGE_STOP - 1) } ELSE {})
          |-> "old" ] :
      near \in SUBSET NearCandidates, far \in BOOLEAN, alts \in BOOLEAN }

FileInit ==
    /\ CONF_THRESHOLD = DEFAULT_CONF_THRESHOLD
    /\ pc = "determine"
    /\ npages = 0
    /\ i = 0
    /\ low = << >>
    /\ changed = 0
    /\ high_conf_updown_rots = << >>
    /\ rotated_pages = {}
    /\ pg = NoPage
    /\ save_attempts = << >>
    /\ closes = 0
    /\ reports = 0
    /\ snap_in = 0
    /\ snap_list = <<0>>
    /\ snap_out = 0
    /\ fs \in StartFileSystems
    /\ out = NoPath
    /\ idx = 0
    /\ save_paths = << >>

pagevars == << CONF_THRESHOLD, npages, i, low, changed, high_conf_updown_rots,
               rotated_pages, pg, save_attempts, closes, reports, snapvars >>

\* lines 113-115: the base name
DetermineBase ==
    /\ pc = "determine"
    /\ idx = 0
    /\ IF ~PathExists(fs, Candidate(0))
       THEN out' = Candidate(0) /\ pc' = "determined" /\ idx' = idx
       ELSE out' = out /\ pc' = pc /\ idx' = RANGE_START
    /\ UNCHANGED << pagevars, fs, save_paths >>

\* lines 117-120: one iteration of the for loop
DetermineCandidate ==
    /\ pc = "determine"
    /\ idx # 0
    /\ idx < RANGE_STOP
    /\ IF ~PathExists(fs, Candidate(idx))
       THEN out' = Candidate(idx) /\ pc' = "determined" /\ idx' = idx
       ELSE out' = out /\ pc' = pc /\ idx' = idx + 1
    /\ UNCHANGED << pagevars, fs, save_paths >>

\* line 122: the range is exhausted; FileExistsError leaves process_file
\* before the document is opened
DetermineExhausted ==
    /\ pc = "determine"
    /\ idx >= RANGE_STOP
    /\ pc' = "exhausted"
    /\ UNCHANGED << pagevars, filevars >>

\* lines 173-180: the document is opened and has no pages
OpenEmptyDocument ==
    /\ pc = "determined"
    /\ npages' = 0
    /\ i' = 0
    /\ low' = << >>
    /\ changed' = 0
    /\ high_conf_updown_rots' = FreshHistory
    /\ rotated_pages' = {}
    /\ pg' = NoPage
    /\ save_attempts' = << >>
    /\ closes' = 0
    /\ reports' = 0
    /\ pc' = "loop"
    /\ UNCHANGED << CONF_THRESHOLD, snapvars, filevars >>

\* while process_file works on the pages (lines 173-264) another program
\* writes a file at the chosen output name
OtherProgramWrites ==
    /\ pc = "loop"
    /\ ~PathExists(fs, out)
    /\ fs' = WriteFile(fs, out, "other")
    /\ UNCHANGED << pagevars, pc, out, idx, save_paths >>

determine_output_path ==
    \/ DetermineBase
    \/ DetermineCandidate
    \/ DetermineExhausted

FileNext ==
    \/ determine_output_path
    \/ OpenEmptyDocument
    \/ OtherProgramWrites
    \/ LoopEnd
    \/ SavePdf
    \/ Report

\* determine_output_path is straight-line code run by one thread: each of
\* its steps is taken once it is enabled
FileSpec == FileInit /\ [][FileNext]_vars /\ WF_vars(determine_output_path)

(***************************************************************************)
(* The run with exceptions in the page loop.                               *)
(***************************************************************************)
\* lines 180-264: a call made while a page is resolved raises an exception
\* that nothing absorbs (a detector other than through TesseractError, the
\* image rotation, the write of line 260); process_file has no try block,
\* so the exception leaves it at once
PageRaises ==
    /\ \/ pc = "loop" /\ i < npages
       \/ pc \in {"stepA", "stepB", "dcheck", "compose"}
    /\ pg' = NoPage
    /\ pc' = "failed"
    /\ UNCHANGED << CONF_THRESHOLD, npages, i, low, changed, high_conf_updown_rots,
                    rotated_pages, save_attempts, closes, reports, snapvars, filevars >>

ExitNext ==
    \/ Next
    \/ PageRaises

ExitSpec == Init /\ [][ExitNext]_vars

(***************************************************************************)
(* Properties.                                                             *)
(***************************************************************************)
\* The circular distance between two angles.
CircularDistance(a, b) ==
    LET x == (a - b) % 360
        y == (b - a) % 360
    IN  IF x < y THEN x ELSE y

\* The nearer of 0 and 180 to r, 0 on a tie.
NearestUpdown(r) ==
    IF CircularDistance(r, 180) < CircularDistance(r, 0) THEN 180 ELSE 0

\* The nearer of 90 and 270 to r, 90 on a tie.
NearestSideways(r) ==
    IF CircularDistance(r, 270) < CircularDistance(r, 90) THEN 270 ELSE 90

Occurrences(s, v) == Cardinality({k \in 1..Len(s) : s[k] = v})

FirstIndex(s, v) == CHOOSE k \in 1..Len(s) : s[k] = v /\ \A j \in 1..(k - 1) : s[j] # v

\* v is a most frequent value of s, and the first seen of the most frequent.
IsFirstSeenMajority(s, v) ==
    /\ \E k \in 1..Len(s) : s[k] = v
    /\ \A k \in 1..Len(s) :
         /\ Occurrences(s, v) >= Occurrences(s, s[k])
         /\ Occurrences(s, v) = Occurrences(s, s[k]) => FirstIndex(s, v) <= FirstIndex(s, s[k])

\* The page being resolved is past lines 216-224 and its locals are all kept.
PastFallback == pc \in {"dcheck", "compose"}

\* The page being resolved is past Step 1.
PastLandscape == pc \in {"stepA", "stepB", "dcheck", "compose"}

\* C1: with conf below the threshold and a non-empty history, the angle
\* chosen at the fallback stage is the most frequent value of the history,
\* the first seen among equally frequent ones, and the page is marked
\* fallback-used, whatever its own hint; otherwise the page is not marked
\* and the angle is its own hint snapped into {0,180}.
C1_FallbackIsMajorityVote ==
    PastFallback =>
        IF pg.conf < CONF_THRESHOLD /\ high_conf_updown_rots # << >>
        THEN /\ pg.used_fallback
             /\ IsFirstSeenMajority(high_conf_updown_rots, pg.fallback_updown)
        ELSE /\ ~pg.used_fallback
             /\ pg.fallback_updown = NearestUpdown(pg.rot)

\* C1 witness: a tie in the history, resolved for the first seen value
\* against the page's own hint.
C1_Witness ==
    /\ pc = "dcheck"
    /\ high_conf_updown_rots = <<180, 0>>
    /\ pg.used_fallback
    /\ pg.rot = 0
    /\ pg.fallback_updown = 180

\* C2: the history is empty when a document starts, whatever the previous
\* document left; it changes only at the history step of a page, by one
\* appended entry at most; no entry is removed or altered; so while page N
\* is resolved up to that step it holds at most N-1 entries, all of this
\* document's earlier pages.
C2_HistoryCausal ==
    /\ [](/\ pc \in {"stepA", "stepB"} => Len(high_conf_updown_rots) <= i - 1
          /\ pc \in {"loop", "dcheck", "compose", "save", "report", "failed"}
                => Len(high_conf_updown_rots) <= i)
    /\ [][/\ pc = "main" => high_conf_updown_rots' = << >>
          /\ pc = "stepB" =>
                \/ high_conf_updown_rots' = high_conf_updown_rots
                \/ \E v \in {0, 180} :
                      high_conf_updown_rots' = Append(high_conf_updown_rots, v)
          /\ pc \notin {"main", "stepB"} => high_conf_updown_rots' = high_conf_updown_rots]_vars

\* C2 witness: a document has been processed and has left two entries in
\* the history when the next document is about to start.
C2_Witness ==
    /\ pc = "main"
    /\ reports = 1
    /\ Len(high_conf_updown_rots) = 2

\* C3: at the history step a page appends its applied_updown if and only if
\* its post-fusion confidence is >= the threshold; a page that used the
\* fallback appends nothing.
C3_AppendIffConfident ==
    [][pc = "stepB" =>
          /\ IF pg'.conf >= CONF_THRESHOLD
             THEN high_conf_updown_rots' = Append(high_conf_updown_rots, pg'.fallback_updown)
             ELSE high_conf_updown_rots' = high_conf_updown_rots
          /\ pg'.used_fallback => high_conf_updown_rots' = high_conf_updown_rots]_vars

\* C3 witness: the second page used the fallback and the history still holds
\* the first page's entry alone.
C3_Witness ==
    /\ pc = "dcheck"
    /\ i = 2
    /\ pg.used_fallback
    /\ Len(high_conf_updown_rots) = 1

\* C4: primary_rot is in {0,90,270}, applied_updown in {0,180}, every entry
\* of the history in {0,180} and total_rotation in {0,90,180,270}, at every
\* point of the run.
C4_RotationsSnapped ==
    /\ pg.primary_rot \in {0, 90, 270}
    /\ pg.fallback_updown \in {0, 180}
    /\ pg.applied_updown \in {0, 180}
    /\ \A k \in 1..Len(high_conf_updown_rots) : high_conf_updown_rots[k] \in {0, 180}
    /\ pg.total_rotation \in {0, 90, 180, 270}
    /\ \A k \in 1..Len(low) : low[k][2] \in {0, 90, 270} /\ low[k][3] \in {0, 180}
                                /\ low[k][6] \in {0, 90, 180, 270}

\* C4 witness: a landscape page turned by 270 and flipped by 180 at a
\* confidence that entered the history, whose total wraps around to 90.
C4_Witness ==
    /\ pc = "loop"
    /\ pg.primary_rot = 270
    /\ pg.applied_updown = 180
    /\ pg.total_rotation = 90
    /\ high_conf_updown_rots = <<180>>

\* C5: at the composition of a page total_rotation is (primary_rot +
\* applied_updown) mod 360 with the applied_updown the double-check left,
\* final_rotation is (pre-existing + total_rotation) mod 360, the stored
\* rotation is written and the page counted exactly when final_rotation
\* differs from the pre-existing rotation, a total of 0 leaves the page
\* untouched, and the changed counter is the number of written pages.
C5_Composition ==
    /\ [](changed = Cardinality(rotated_pages))
    /\ [][pc = "compose" =>
            LET total == (pg.primary_rot + pg.applied_updown) % 360
                final == (pg'.current_rotation + total) % 360
                differs == final # pg'.current_rotation
            IN  /\ pg'.current_rotation \in {0, 90, 180, 270}
                /\ pg'.total_rotation = total
                /\ pg'.new_rotation = final
                /\ rotated_pages' = IF differs THEN rotated_pages \cup {i} ELSE rotated_pages
                /\ i \notin rotated_pages
                /\ changed' = IF differs THEN changed + 1 ELSE changed
                /\ total = 0 => ~differs
                /\ pg.reverted => pg.applied_updown = 0]_vars

\* C5 witness: a page stored at 270 and turned by 90 ends at 0, is written
\* and is the second page counted.
C5_Witness ==
    /\ pc = "loop"
    /\ pg.current_rotation = 270
    /\ pg.total_rotation = 90
    /\ pg.new_rotation = 0
    /\ i \in rotated_pages
    /\ changed = 2

\* C6: the result is an element of the list at minimal circular distance
\* from the rotation, the first such element in list order; with the
\* list [0,180], 91 gives 180, 89 gives 0, and 90 and 270 give 0.
C6_SnapNearestFirst ==
    pc = "snapped" =>
        /\ \E k \in 1..Len(snap_list) :
             /\ snap_out = snap_list[k]
             /\ \A j \in 1..Len(snap_list) :
                  CircularDistance(snap_in, snap_list[k]) <= CircularDistance(snap_in, snap_list[j])
             /\ \A j \in 1..(k - 1) :
                  CircularDistance(snap_in, snap_list[j]) > CircularDistance(snap_in, snap_list[k])
        /\ snap_list = <<0, 180>> /\ snap_in = 91 => snap_out = 180
        /\ snap_list = <<0, 180>> /\ snap_in = 89 => snap_out = 0
        /\ snap_list = <<0, 180>> /\ snap_in \in {90, 270} => snap_out = 0

\* C6 witness: a negative rotation at equal distance from both elements.
C6_Witness ==
    /\ pc = "snapped"
    /\ snap_in = 0 - 90
    /\ snap_list = <<180, 0>>
    /\ snap_out = 180

\* C7: a page with height >= width is portrait, no landscape-stage OCR call
\* is issued, primary_rot = 0 and primary_conf = 10.0; a page with
\* height < width is landscape, exactly one landscape-stage OCR call is
\* issued, primary_rot is its hint snapped into {90,270} and primary_conf
\* is its confidence.
C7_OrientationGating ==
    PastLandscape =>
        IF pg.h >= pg.w
        THEN /\ pg.is_portrait
             /\ pg.landscape_calls = 0
             /\ pg.primary_rot = 0
             /\ pg.primary_conf = 100
        ELSE /\ ~pg.is_portrait
             /\ pg.landscape_calls = 1
             /\ pg.primary_rot \in {90, 270}
             /\ pg.primary_rot = NearestSideways(pg.rot_landscape)
             /\ pg.primary_conf = pg.conf_landscape

\* C7 witness: a landscape page on which the detector failed.
C7_Witness ==
    /\ pc = "stepA"
    /\ pg.h < pg.w
    /\ pg.rot_landscape = 0
    /\ pg.conf_landscape = 0
    /\ pg.primary_rot = 90

\* The double-check revert scenario: a portrait page, Step A read text with
\* hint 0 and a confidence c below the threshold, the pose estimator was
\* run and its 180 with a greater confidence was adopted, every text probe
\* of the page reported text, and the 180-rotated image scored below c.
RevertScenario ==
    /\ pg.is_portrait
    /\ pg.osd_A
    /\ pg.rot_A = 0
    /\ pg.conf_A < CONF_THRESHOLD
    /\ pg.pose_calls = 1
    /\ pg.rot = 180
    /\ pg.conf > pg.conf_A
    /\ \A k \in 1..Len(pg.probe) : pg.probe[k]
    /\ pg.dc_ran
    /\ pg.score_rotated < pg.conf_A

\* C8: in the double-check revert scenario the flip is reverted:
\* applied_updown = 0, the page is flagged double-check-reverted and it is
\* not counted as changed.
C8_RevertScenarioReverts ==
    [][pc = "compose" /\ RevertScenario =>
          /\ pg.applied_updown = 0
          /\ pg.reverted
          /\ changed' = changed]_vars

\* A page of the idempotence probe: portrait, text reported, Step A hint 0
\* at a confidence >= the threshold.
UprightTextPage ==
    /\ pg.is_portrait
    /\ pg.probe # << >>
    /\ pg.probe[1]
    /\ pg.osd_A
    /\ pg.rot_A = 0
    /\ pg.conf_A >= CONF_THRESHOLD

\* C9: the changed counter is 0 when a document starts and moves only at a
\* composition, and the composition of a portrait page with text and a
\* Step-A hint of 0 at a confidence >= the threshold writes nothing and
\* counts nothing, whatever the stored rotation; so a document of such pages
\* ends with zero changed pages.
C9_UprightDocumentUnchanged ==
    [][/\ pc = "main" => changed' = 0 /\ rotated_pages' = {}
       /\ pc \notin {"main", "compose"} => changed' = changed /\ rotated_pages' = rotated_pages
       /\ pc = "compose" /\ UprightTextPage =>
             /\ changed' = changed
             /\ rotated_pages' = rotated_pages
             /\ pg'.new_rotation = pg'.current_rotation
             /\ pg'.total_rotation = 0]_vars

\* C9 witness: the second of two such pages, stored at 90, composed with
\* nothing written.
C9_Witness ==
    /\ pc = "loop"
    /\ i = 2
    /\ npages = 2
    /\ high_conf_updown_rots = <<0, 0>>
    /\ low = << >>
    /\ pg.conf = 100
    /\ pg.current_rotation = 90
    /\ pg.new_rotation = 90
    /\ changed = 0

\* C10: a page gets an entry in the report list exactly when conf or
\* primary_conf is below the threshold; the entry carries the page number
\* and the final primary_rot, applied_updown, conf, fallback flag and total
\* rotation; entries are in page order, one per page, never removed within
\* a document; the report runs at most once, and only after a successful
\* save.
C10_LowConfidenceReport ==
    /\ [](/\ \A k \in 1..Len(low) : low[k][1] \in 1..i
          /\ \A k \in 1..(Len(low) - 1) : low[k][1] < low[k + 1][1]
          /\ reports <= 1
          /\ (pc = "report" \/ reports = 1) =>
                /\ save_attempts # << >>
                /\ save_attempts[Len(save_attempts)] = "ok"
          /\ reports = 1 => pc = "main")
    /\ [][/\ pc = "compose" =>
               IF pg.conf < CONF_THRESHOLD \/ pg.primary_conf < CONF_THRESHOLD
               THEN low' = Append(low, << i, pg.primary_rot, pg.applied_updown, pg.conf,
                                         pg.used_fallback,
                                         (pg.primary_rot + pg.applied_updown) % 360 >>)
               ELSE low' = low
          /\ pc = "compose" /\ pg.reverted => pg.applied_updown = 0
          /\ pc = "main" => low' = << >>
          /\ pc \notin {"main", "compose"} => low' = low]_vars

\* C10 witness: the report has run over two entries, the second of a page
\* that took the fallback's 180 and was reverted by the double-check.
C10_Witness ==
    /\ pc = "main"
    /\ reports = 1
    /\ Len(low) = 2
    /\ low[2][5]
    /\ low[2][3] = 0
    /\ high_conf_updown_rots = <<180>>

\* save_pdf has returned or raised.
AfterSave == save_attempts # << >>

\* C11: the first attempt goes to the requested path; there is a second
\* attempt if and only if the first raised a permission error, and it goes to
\* the alternate _new name of the requested path; the path saved to is
\* returned; a failed second attempt and a first attempt failing otherwise
\* leave save_pdf as an exception; there are never more than two attempts.
C11_SaveRetryProtocol ==
    AfterSave =>
        /\ Len(save_attempts) \in {1, 2}
        /\ Len(save_paths) = Len(save_attempts)
        /\ save_paths[1] = << "rot", idx >>
        /\ Len(save_attempts) = 2 <=> save_attempts[1] = "perm"
        /\ Len(save_attempts) = 2 => save_paths[2] = << "new", idx >>
        /\ IF save_attempts[Len(save_attempts)] = "ok"
           THEN /\ pc \in {"report", "main"}
                /\ out = save_paths[Len(save_paths)]
                /\ out \in DOMAIN fs
                /\ fs[out] = "new"
           ELSE pc = "failed"

\* C11 witness: the requested name _rot_2 was taken and locked by another
\* program, and the document went to the alternate name.
C11_Witness ==
    /\ pc = "main"
    /\ save_attempts = << "perm", "ok" >>
    /\ save_paths = << << "rot", 2 >>, << "new", 2 >> >>
    /\ << "rot", 2 >> \in DOMAIN fs
    /\ fs[<< "rot", 2 >>] = "other"
    /\ out = << "new", 2 >>

\* process_file has been left after it opened the document: it returned
\* (the report is its last statement) or an exception left it.
LeftProcessFile == pc = "failed" \/ (pc = "main" /\ reports = 1)

\* C12: once the document is open, it is closed exactly once on every way
\* out of process_file: after the report, after a save that failed, and
\* after an exception raised while the pages were resolved; and it is never
\* closed twice.
C12_ClosedOnEveryExit ==
    /\ closes <= 1
    /\ LeftProcessFile => closes = 1

\* Every candidate before number k exists.
EarlierCandidatesExist(k) == \A j \in 0..(k - 1) : << "rot", j >> \in DOMAIN fs

\* C13: determine_output_path returns the first name that does not exist in
\* the sequence _rot, _rot_1, ..., _rot_999 (_rot_2 when exactly _rot and
\* _rot_1 of the first three exist); the returned name does not exist when
\* it is returned; when all 1000 names exist it raises instead of returning
\* and probes no further name; and it always ends, one way or the other.
C13_FirstFreeCandidate ==
    /\ [](/\ idx \in 0..1000
          /\ pc = "determined" =>
                /\ out = << "rot", idx >>
                /\ idx \in 0..999
                /\ out \notin DOMAIN fs
                /\ EarlierCandidatesExist(idx)
                /\ (EarlierCandidatesExist(2) /\ << "rot", 2 >> \notin DOMAIN fs)
                      => out = << "rot", 2 >>
          /\ pc = "exhausted" =>
                /\ EarlierCandidatesExist(1000)
                /\ out = << >>
                /\ idx = 1000)
    /\ <>(pc \in {"determined", "exhausted"})

\* C13 witness: every name up to _rot_998 exists and _rot_999, the last
\* candidate, is returned.
C13_Witness ==
    /\ pc = "determined"
    /\ out = << "rot", 999 >>
    /\ EarlierCandidatesExist(999)

\* C13, second witness: all 1000 names exist and the search has raised.
C13_WitnessExhausted ==
    /\ pc = "exhausted"
    /\ EarlierCandidatesExist(1000)

\* C20: no step of process_file removes or rewrites a file that was in the
\* directory before the run: every such file is still there afterwards, with
\* what it held.
C20_ExistingFilesKept ==
    [][\A n \in DOMAIN fs :
          fs[n] = "old" => (n \in DOMAIN fs' /\ fs'[n] = "old")]_vars

\* The page's locals are complete: the double-check stage is behind and the
\* composition has not yet dropped what it does not read.
Resolved == pc = "compose"

\* Every text-presence probe of the page reported text.
TextReported == pg.probe # << >> /\ \A k \in 1..Len(pg.probe) : pg.probe[k]

\* C14: whenever the double-check ran on a page whose text probe reported
\* text, score_original is the confidence of the Step-A measurement if that
\* measurement's hint was 0, and 0 otherwise, also when the pose
\* estimator's result was adopted at Step B.
C14_ScoreOriginalFromStepA ==
    (Resolved /\ pg.dc_ran /\ TextReported) =>
        pg.score_original = (IF pg.rot_A = 0 THEN pg.conf_A ELSE 0)

\* C15: the double-check runs exactly for a portrait page whose
\* applied_updown after the fallback stage is 180; it then calls the OCR
\* once on the rotated image and sets applied_updown to 0 if and only if
\* score_original > score_rotated, keeping the 180 on equal scores; for any
\* other page, every landscape page among them, there is no such call and
\* applied_updown stays what the fallback stage left.
C15_DoubleCheckGate ==
    Resolved =>
        /\ pg.dc_ran <=> (pg.h >= pg.w /\ pg.fallback_updown = 180)
        /\ pg.rotated_calls = (IF pg.dc_ran THEN 1 ELSE 0)
        /\ pg.reverted <=> (pg.dc_ran /\ pg.score_original > pg.score_rotated)
        /\ pg.applied_updown = (IF pg.reverted THEN 0 ELSE pg.fallback_updown)
        /\ pg.h < pg.w =>
              /\ ~pg.reverted
              /\ pg.rotated_calls = 0
              /\ Len(pg.probe) <= 2
              /\ pg.applied_updown = pg.fallback_updown

\* C15 witness: both images scored 10.0 and the flip was kept.
C15_Witness ==
    /\ Resolved
    /\ pg.dc_ran
    /\ pg.score_original = 100
    /\ pg.score_rotated = 100
    /\ ~pg.reverted
    /\ pg.applied_updown = 180

\* C15, second witness: a landscape page whose applied_updown is 180.
C15_WitnessLandscape ==
    /\ Resolved
    /\ pg.h < pg.w
    /\ pg.applied_updown = 180
    /\ ~pg.dc_ran

\* The answer of the text probe made at the pose gate (line 207), which is
\* made when the Step-A confidence is below the threshold.
GateText == pg.probe[2]

\* C16: the pose estimator is called at most once per page, and only when
\* the Step-A confidence is below the threshold and the gate found no text
\* or the Step-A confidence is below 0.5; with text found and a confidence
\* >= 0.5 it is not called and the OCR values are kept; its result replaces
\* (rot, conf) only when its confidence is strictly greater than conf, and
\* on equal confidences or without a pose the OCR values are kept.
C16_PoseGating ==
    PastFallback =>
        /\ pg.pose_calls \in {0, 1}
        /\ pg.pose_calls = 1 <=>
              /\ pg.conf_A < CONF_THRESHOLD
              /\ (~GateText \/ pg.conf_A < 5)
        /\ (pg.conf_A < CONF_THRESHOLD /\ GateText /\ pg.conf_A >= 5) =>
              /\ pg.pose_calls = 0
              /\ pg.rot = pg.rot_A
              /\ pg.conf = pg.conf_A
        /\ IF pg.pose_calls = 1 /\ pg.p_conf > pg.conf_A
           THEN pg.rot = pg.p_rot /\ pg.conf = pg.p_conf
           ELSE pg.rot = pg.rot_A /\ pg.conf = pg.conf_A

\* C16 witness: the pose estimator said 180 at 10.0 against an OCR hint of
\* 0 at 10.0, and the OCR values were kept.
C16_Witness ==
    /\ PastFallback
    /\ pg.pose_calls = 1
    /\ pg.p_rot = 180
    /\ pg.p_conf = 100
    /\ pg.conf_A = 100
    /\ pg.rot_A = 0
    /\ pg.rot = 0

\* The text-presence probes of the page all gave the same answer.
ProbesAgree == \A j, k \in 1..Len(pg.probe) : pg.probe[j] = pg.probe[k]

\* C17: every entry of the history is the final upright/inverted angle of
\* the page that appended it: a page whose confidence is >= the threshold
\* has appended the last entry, and that entry equals its applied_updown
\* after the double-check, the one composed into total_rotation (stated for
\* pages whose text probes agree).
C17_HistoryHoldsFinalAngles ==
    (Resolved /\ pg.conf >= CONF_THRESHOLD /\ ProbesAgree) =>
        /\ high_conf_updown_rots # << >>
        /\ high_conf_updown_rots[Len(high_conf_updown_rots)] = pg.applied_updown

\* C18: a page recorded as fallback-used has for final applied_updown the
\* majority value of the fallback history, so that a flip taken from the
\* history and reverted by the double-check is not recorded as a fallback
\* decision (stated for pages whose text probes agree).
C18_ProvenanceNamesDecider ==
    [][(pc = "compose" /\ ProbesAgree /\ Len(low') = Len(low) + 1 /\ low'[Len(low')][5]) =>
          IsFirstSeenMajority(high_conf_updown_rots, low'[Len(low')][3])]_vars

\* C19: while a page is resolved the text-presence probe is queried at most
\* once, so that Step A, the pose gate and the double-check act on one
\* answer.
C19_TextProbedOnce ==
    /\ Len(pg.probe) <= 1
    /\ ProbesAgree

====
